---------------------------- MODULE Spec2Model ----------------------------
(***************************************************************************)
(* A model of PythonCode/evaluator.py: the security filter, the restricted *)
(* environment, run_with_timeout and the test harness evaluate_user_code.  *)
(*                                                                         *)
(* Python strings are sequences of tokens (words or fixed chunks of text); *)
(* concatenation and f-strings are \o, and `x in s` is token membership.   *)
(* A submission is its source text (what the filter reads) together with   *)
(* what the Python runtime does with it (what compile, exec and a call of  *)
(* the target do); the harness never sees more of it than that.            *)
(***************************************************************************)
EXTENDS Integers, Sequences, FiniteSets, TLC

(***************************************************************************)
(* Bounds of the model.                                                    *)
(***************************************************************************)
MaxTokens == 2
MaxCases == 2

\* evaluator.py:15
TIMEOUT_SECONDS == 5

(***************************************************************************)
(* Python values that a callable returns and a test case expects.          *)
(* t is type(v).__name__, n the number it compares as.  "EqRaises" and     *)
(* "ReprRaises" are instances of classes the submission defines, whose     *)
(* __eq__ (resp. __repr__) raises.                                         *)
(***************************************************************************)
VNone == [t |-> "NoneType", n |-> 0]
VInt(k) == [t |-> "int", n |-> k]
VTrue == [t |-> "bool", n |-> 1]
VFloat(k) == [t |-> "float", n |-> k]
VEqRaises == [t |-> "EqRaises", n |-> 0]
VReprRaises == [t |-> "ReprRaises", n |-> 0]

NumericTypes == {"int", "bool", "float"}

\* `v is None`
IsNone(v) == v.t = "NoneType"

\* `result != expected`: raises when result's class defines a raising __eq__
NeRaises(result, expected) == result.t = "EqRaises"

PyNe(result, expected) ==
    IF result.t \in NumericTypes /\ expected.t \in NumericTypes
    THEN result.n # expected.n
    ELSE result # expected

\* str(v) / f"{v}": raises when the class defines a raising __repr__
StrRaises(v) == v.t = "ReprRaises"

Str(v) ==
    CASE v.t = "NoneType" -> "None"
      [] v.t = "bool" -> IF v.n = 1 THEN "True" ELSE "False"
      [] v.t = "int" -> IF v.n = 1 THEN "1" ELSE IF v.n = 2 THEN "2" ELSE "0"
      [] v.t = "float" -> IF v.n = 1 THEN "1.0" ELSE "0.0"
      [] OTHER -> "<object>"

\* f"{inputs}" for the argument tuples (1,) and (2,)
StrInputs(inputs) == IF inputs = 1 THEN "(1,)" ELSE "(2,)"

(***************************************************************************)
(* str.lower() on tokens, and `w in s`.                                    *)
(***************************************************************************)
LowerToken(w) ==
    CASE w = "Exceeded" -> "exceeded"
      [] w = "Time" -> "time"
      [] w = "Limit" -> "limit"
      [] w = "Execution" -> "execution"
      [] w = "NameError" -> "nameerror"
      [] w = "TypeError" -> "typeerror"
      [] w = "IndexError" -> "indexerror"
      [] w = "Exception" -> "exception"
      [] OTHER -> w

Lower(s) == [k \in 1..Len(s) |-> LowerToken(s[k])]

Contains(s, w) == \E k \in 1..Len(s) : s[k] = w

(***************************************************************************)
(* The state.                                                              *)
(*   pc              where the caller of evaluate_user_code is             *)
(*   args            the arguments of the evaluation in progress           *)
(*   printed_output  the list capture_print appends to                     *)
(*   safe_env        the names bound in the restricted environment         *)
(*   func, i         the resolved target and the index of the current case *)
(*   thread, work, wprinted   the worker of run_with_timeout               *)
(*   result, error, completed its three cells                              *)
(*   elapsed         seconds the caller has spent in thread.join           *)
(*   rwt             what run_with_timeout returned                        *)
(*   verdict         what evaluate_user_code returned                      *)
(*   escaped         the exception that left evaluate_user_code            *)
(*   env_builtins    the dict bound to '__builtins__' in safe_env          *)
(*   safe_builtins, dangerous_patterns   the module-level tables           *)
(*                   SAFE_BUILTINS and DANGEROUS_PATTERNS as they are now  *)
(*   other           a second call of evaluate_user_code, made by another  *)
(*                   thread while the first is in progress                 *)
(*   abandoned       the worker that an earlier evaluation left running    *)
(*                   at its timeout, with the cells and the sink of that   *)
(*                   evaluation                                            *)
(* History variables: started (workers started in this evaluation),        *)
(* filtered, defined, resolved (runs of the filter, of compile/exec and of *)
(* the lookup of the target in this evaluation), waited (the longest       *)
(* join of this evaluation), timed_out (is_alive() was true), prev (the    *)
(* outcome of the preceding evaluation when it had the same arguments).    *)
(***************************************************************************)
VARIABLES pc, args, printed_output, safe_env, func, i,
          thread, work, wprinted, result, error, completed, elapsed,
          rwt, verdict, escaped, env_builtins, safe_builtins, dangerous_patterns, other,
          abandoned,
          started, filtered, defined, resolved, waited, timed_out, prev

vars == <<pc, args, printed_output, safe_env, func, i,
          thread, work, wprinted, result, error, completed, elapsed,
          rwt, verdict, escaped, env_builtins, safe_builtins, dangerous_patterns, other,
          abandoned,
          started, filtered, defined, resolved, waited, timed_out, prev>>

(***************************************************************************)
(* The security filter.  A rule `\bA\s+B\b`, `\bA\s*\(` or `\.A` is a pair *)
(* of adjacent tokens; re.search finds it at any position of the text.     *)
(* A message is three tokens: the construct it names between its quotes is *)
(* the second one.                                                         *)
(***************************************************************************)
DANGEROUS_PATTERNS == <<
    [a |-> "import", b |-> "os", message |-> <<"Importing '", "os", "' module is not allowed">>],
    [a |-> "import", b |-> "sys", message |-> <<"Importing '", "sys", "' module is not allowed">>],
    [a |-> "import", b |-> "subprocess", message |-> <<"Importing '", "subprocess", "' module is not allowed">>],
    [a |-> "open", b |-> "(", message |-> <<"File operations with '", "open", "()' are not allowed">>],
    [a |-> "eval", b |-> "(", message |-> <<"Using '", "eval", "()' is not allowed">>],
    [a |-> "exec", b |-> "(", message |-> <<"Using '", "exec", "()' is not allowed">>],
    [a |-> "__import__", b |-> "(", message |-> <<"Using '", "__import__", "()' is not allowed">>],
    [a |-> "compile", b |-> "(", message |-> <<"Using '", "compile", "()' is not allowed">>],
    [a |-> "globals", b |-> "(", message |-> <<"Using '", "globals", "()' is not allowed">>],
    [a |-> "locals", b |-> "(", message |-> <<"Using '", "locals", "()' is not allowed">>],
    [a |-> "getattr", b |-> "(", message |-> <<"Using '", "getattr", "()' is not allowed">>],
    [a |-> "setattr", b |-> "(", message |-> <<"Using '", "setattr", "()' is not allowed">>],
    [a |-> "delattr", b |-> "(", message |-> <<"Using '", "delattr", "()' is not allowed">>],
    [a |-> ".", b |-> "__class__", message |-> <<"Accessing '", "__class__", "' is not allowed">>],
    [a |-> ".", b |-> "__bases__", message |-> <<"Accessing '", "__bases__", "' is not allowed">>],
    [a |-> ".", b |-> "__subclasses__", message |-> <<"Accessing '", "__subclasses__", "' is not allowed">>],
    [a |-> ".", b |-> "__code__", message |-> <<"Accessing '", "__code__", "' is not allowed">>],
    [a |-> ".", b |-> "__globals__", message |-> <<"Accessing '", "__globals__", "' is not allowed">>],
    [a |-> ".", b |-> "__builtins__", message |-> <<"Accessing '", "__builtins__", "' is not allowed">>]
>>

(***************************************************************************)
(* The table of builtins handed to submissions (lines 18-81): for each     *)
(* name, whether it is bound to the interpreter's builtin or to an object  *)
(* a submission made.  The model follows two of the names.                 *)
(***************************************************************************)
BuiltinNames == {"len", "int"}

SAFE_BUILTINS == [n \in BuiltinNames |-> "builtin"]

\* no dict of builtins has been made yet
NoBuiltins == [n \in BuiltinNames |-> "absent"]

\* re.search(pattern, code)
re_search(pattern, code) ==
    \E p \in 1..(Len(code) - 1) : code[p] = pattern.a /\ code[p + 1] = pattern.b

SecurityErrorPrefix == "Security Error:"

\* the for loop of check_code_security from rule k on
RECURSIVE check_from(_, _)
check_from(k, code) ==
    IF k > Len(dangerous_patterns)
    THEN [is_safe |-> TRUE, message |-> <<>>]
    ELSE IF re_search(dangerous_patterns[k], code)
         THEN [is_safe |-> FALSE,
               message |-> <<SecurityErrorPrefix>> \o dangerous_patterns[k].message]
         ELSE check_from(k + 1, code)

\* faulty variant: the reason is that of the rule matching earliest in the text
check_code_security_first_in_text(code) ==
    LET At(k, p) == code[p] = dangerous_patterns[k].a /\ code[p + 1] = dangerous_patterns[k].b
        Hits == { p \in 1..(Len(code) - 1) : \E k \in 1..Len(dangerous_patterns) : At(k, p) }
    IN  IF Hits = {}
        THEN [is_safe |-> TRUE, message |-> <<>>]
        ELSE LET p == CHOOSE q \in Hits : \A h \in Hits : q <= h
                 k == CHOOSE j \in 1..Len(dangerous_patterns) : At(j, p)
             IN  [is_safe |-> FALSE,
                  message |-> <<SecurityErrorPrefix>> \o dangerous_patterns[k].message]

\* faulty variant: one reason for every rule
check_code_security_generic(code) ==
    IF check_from(1, code).is_safe
    THEN [is_safe |-> TRUE, message |-> <<>>]
    ELSE [is_safe |-> FALSE, message |-> <<SecurityErrorPrefix, "This code is not allowed">>]

\* faulty variant: the scan starts at the second rule of the table
check_code_security_skips_first(code) == check_from(2, code)

check_code_security(code) == check_from(1, code)

(***************************************************************************)
(* Message templates.                                                      *)
(***************************************************************************)
COMMON_MISTAKES ==
    [print_instead_of_return |->
        [message |-> <<"You're using print() instead of return">>,
         suggestion |-> <<"Replace print(...) with return ... to return the value">>],
     no_return |->
        [message |-> <<"Your function doesn't return anything">>,
         suggestion |-> <<"Add a 'return' statement at the end of your function">>],
     wrong_function_name |->
        [message |-> <<"Function name doesn't match the required name">>,
         suggestion |-> <<"Make sure your function is named exactly as shown in the template">>],
     indentation_error |->
        [message |-> <<"Indentation Error">>,
         suggestion |-> <<"Check that your code uses consistent spaces (4 spaces per indent level)">>],
     syntax_error |->
        [message |-> <<"Syntax Error">>,
         suggestion |-> <<"Check for missing colons, parentheses, or quotes">>],
     name_error |->
        [message |-> <<"Undefined Variable">>,
         suggestion |-> <<"Make sure all variables are defined before use">>],
     type_error |->
        [message |-> <<"Type Error">>,
         suggestion |-> <<"Check that you're using the correct data types for operations">>],
     index_error |->
        [message |-> <<"Index Out of Range">>,
         suggestion |-> <<"Check your loop bounds and list indices">>],
     timeout |->
        [message |-> <<"Time", "Limit", "Exceeded">>,
         suggestion |-> <<"Your code took too long. Check for infinite loops or optimize your solution">>]]

\* COMMON_MISTAKES.get(error_type, {...}) with type(error).__name__ in the default
mistake_info(error_type_name, error_type) ==
    IF error_type \in DOMAIN COMMON_MISTAKES
    THEN COMMON_MISTAKES[error_type]
    ELSE [message |-> <<error_type_name>>,
          suggestion |-> <<"Check your code logic and try again">>]

\* format_runtime_error(error, error_type), error given by its type name and str()
format_runtime_error(error_type_name, error_text, error_type) ==
    mistake_info(error_type_name, error_type).message \o <<":">> \o error_text
        \o mistake_info(error_type_name, error_type).suggestion

TypeMismatchNote == "Type mismatch:"

\* format_test_failure(inputs, expected, actual); the caller has checked StrRaises
format_test_failure(inputs, expected, actual) ==
    <<"Test Case Failed", "Input:", StrInputs(inputs),
      "Expected:", Str(expected), "Got:", Str(actual)>>
    \o (IF expected.t # actual.t
        THEN <<TypeMismatchNote, expected.t, actual.t,
               "Make sure you're returning the correct data type">>
        ELSE <<>>)

\* the message run_with_timeout returns when the thread is still alive
timeout_message ==
    format_runtime_error("TimeoutException",
                         <<"Execution", "exceeded", "5", "seconds">>, "timeout")

(***************************************************************************)
(* Exceptions.  str(e) is text; a class of the submission may define a     *)
(* raising __str__ (str_raises) or a __bool__/__len__ that makes its       *)
(* instances falsy.                                                        *)
(***************************************************************************)
Exc(type, text) == [type |-> type, text |-> text, str_raises |-> FALSE, falsy |-> FALSE]

NoExc == Exc("none", <<>>)

\* the direct base class of each exception class ("object" ends the chain)
BaseOf(type) ==
    CASE type = "BaseException" -> "object"
      [] type = "Exception" -> "BaseException"
      [] type = "IndentationError" -> "SyntaxError"
      [] type = "ZeroDivisionError" -> "ArithmeticError"
      [] type = "IndexError" -> "LookupError"
      [] type = "KeyError" -> "LookupError"
      [] type = "RecursionError" -> "RuntimeError"
      [] OTHER -> "Exception"

\* isinstance(e, cls), as an `except cls` clause decides it
RECURSIVE IsInstance(_, _)
IsInstance(type, cls) ==
    IF type = cls THEN TRUE
    ELSE IF type = "object" THEN FALSE
    ELSE IsInstance(BaseOf(type), cls)

E_Index == Exc("IndexError", <<"list index out of range">>)
E_Name == Exc("NameError", <<"name 'x' is not defined">>)
E_Type == Exc("TypeError", <<"unsupported operand type(s)">>)
E_Key == Exc("KeyError", <<"'k'">>)
E_Zero == Exc("ZeroDivisionError", <<"division by zero">>)
E_Recursion == Exc("RecursionError", <<"maximum recursion depth", "exceeded">>)
\* raise ValueError("IndexError") : the text mentions another kind
E_Mention == Exc("ValueError", <<"IndexError">>)
E_StrRaises == [Exc("UserError", <<>>) EXCEPT !.str_raises = TRUE]
E_Falsy == [Exc("UserError", <<"boom">>) EXCEPT !.falsy = TRUE]
\* raise Exception.__mro__[1]() : not an Exception
E_Base == Exc("BaseException", <<"stop">>)
E_NotCallable == Exc("TypeError", <<"'dict' object is not callable">>)

(***************************************************************************)
(* What a call of the target does on one argument tuple: it may print,     *)
(* then returns a value, raises, or never ends.  cost is the running time  *)
(* of the call in seconds.                                                 *)
(***************************************************************************)
Ret(v, prints, cost) ==
    [kind |-> "return", value |-> v, prints |-> prints, cost |-> cost, exc |-> NoExc]
Raise(e) ==
    [kind |-> "raise", value |-> VNone, prints |-> FALSE, cost |-> 1, exc |-> e]
Loop == [kind |-> "loop", value |-> VNone, prints |-> FALSE, cost |-> 0, exc |-> NoExc]

Outcomes ==
    { Ret(VInt(1), FALSE, 1), Ret(VInt(2), FALSE, 1), Ret(VNone, FALSE, 1),
      Ret(VNone, TRUE, 1), Ret(VInt(1), TRUE, 1), Ret(VTrue, FALSE, 1),
      Ret(VFloat(1), FALSE, 1),
      Ret(VEqRaises, FALSE, 1), Ret(VReprRaises, FALSE, 1),
      Ret(VInt(1), FALSE, TIMEOUT_SECONDS), Ret(VInt(1), FALSE, TIMEOUT_SECONDS + 1),
      Loop }
    \cup { Raise(e) : e \in { E_Index, E_Name, E_Type, E_Key, E_Zero, E_Recursion,
                              E_Mention, E_StrRaises, E_Falsy, E_Base } }

\* the argument tuples of the test cases: (1,) and (2,)
Inputs == {1, 2}

(***************************************************************************)
(* A submission: its source text, and what compile(), exec() and a call of *)
(* a function it defines do.                                               *)
(* effect is what the top-level code does besides defining names:          *)
(*   "rebind"  __builtins__['len'] = ...  through the environment's entry  *)
(*   "walk"    it takes a traceback's frame, follows f_back to the frame   *)
(*             of evaluate_user_code, and through f_globals rebinds        *)
(*             SAFE_BUILTINS['len'] and calls DANGEROUS_PATTERNS.clear()   *)
(* top_prints: the top-level code calls print.                             *)
(***************************************************************************)
Program(compile, exec, exc, defs, body) ==
    [compile |-> compile, exec |-> exec, exc |-> exc, defs |-> defs, body |-> body,
     effect |-> "none", top_prints |-> FALSE]

\* def solve(x): return 1
Benign == Program("ok", "ok", NoExc, <<"solve">>, [x \in Inputs |-> Ret(VInt(1), FALSE, 1)])

BodyPrograms ==
    { Program("ok", "ok", NoExc, <<"solve">>, b) : b \in [Inputs -> Outcomes] }

DefinitionPrograms ==
    { [Benign EXCEPT !.compile = "SyntaxError"],
      [Benign EXCEPT !.compile = "IndentationError"],
      [Benign EXCEPT !.exec = "loop"],
      [Benign EXCEPT !.exec = "raise", !.exc = E_Name],
      [Benign EXCEPT !.exec = "raise", !.exc = E_StrRaises],
      [Benign EXCEPT !.exec = "raise", !.exc = E_Base],
      [Benign EXCEPT !.defs = <<>>],
      [Benign EXCEPT !.defs = <<"helper">>],
      [Benign EXCEPT !.defs = <<"helper", "solve">>],
      [Benign EXCEPT !.effect = "rebind"],
      [Benign EXCEPT !.effect = "walk"],
      [Benign EXCEPT !.top_prints = TRUE],
      [Benign EXCEPT !.top_prints = TRUE,
                     !.body = [x \in Inputs |-> Ret(VNone, FALSE, 1)]] }

TextTokens == {"import", "os", "open", "(", ".", "__class__", "x"}

Texts == UNION { [1..n -> TextTokens] : n \in 0..MaxTokens }

BenignText == <<"x">>

\* for each rule of the table, the shortest text it matches
RuleTexts == { <<DANGEROUS_PATTERNS[k].a, DANGEROUS_PATTERNS[k].b>> :
                 k \in 1..Len(DANGEROUS_PATTERNS) }

\* texts that two rules match, one after the other
TwoRuleTexts == { t \o u : t \in RuleTexts, u \in RuleTexts }

Expecteds == {VInt(1), VNone}

\* test case k is called on the argument tuple InputOf(k)
InputOf(k) == ((k - 1) % 2) + 1

TestLists ==
    UNION { { [k \in 1..n |-> [inputs |-> InputOf(k), expected |-> e[k]]] :
              e \in [1..n -> Expecteds] } : n \in 0..MaxCases }

OneCase == <<[inputs |-> 1, expected |-> VInt(1)]>>

Arguments(text, program, function_name, test_cases) ==
    [code |-> [text |-> text, program |-> program],
     function_name |-> function_name, test_cases |-> test_cases]

\* the calls of evaluate_user_code the model makes
Calls ==
    { Arguments(t, p, "solve", OneCase) :
        t \in Texts, p \in {Benign, [Benign EXCEPT !.exec = "loop"]} }
    \cup { Arguments(t, Benign, "solve", OneCase) : t \in RuleTexts \cup TwoRuleTexts }
    \cup { Arguments(BenignText, p, "solve", tc) : p \in BodyPrograms, tc \in TestLists }
    \cup { Arguments(BenignText, p, f, OneCase) :
             p \in DefinitionPrograms, f \in {"solve", "print", "__builtins__"} }

workerVars == <<thread, work, wprinted, result, error, completed, elapsed>>
historyVars == <<started, filtered, defined, resolved, waited, timed_out, prev>>
moduleVars == <<safe_builtins, dangerous_patterns>>

NoVerdict == [passed |-> FALSE, message |-> <<>>]
Verdict(passed, message) == [passed |-> passed, message |-> message]
NoReturn == [result |-> VNone, success |-> FALSE, error_msg |-> <<>>]
NoCall == Arguments(<<>>, Benign, "none", <<>>)
NoOther == [pc |-> "none", text |-> <<>>, effect |-> "none", work |-> 0]
NoAbandoned ==
    [state |-> "none", call |-> Loop, wprinted |-> FALSE, printed_output |-> <<>>,
     result |-> VNone, error |-> NoExc, completed |-> FALSE]
NoPrev == [pc |-> "none", verdict |-> NoVerdict, escaped |-> NoExc, timed_out |-> FALSE]

Init ==
    /\ pc = "idle"
    /\ args = NoCall
    /\ printed_output = <<>>
    /\ safe_env = <<>>
    /\ func = "none"
    /\ i = 0
    /\ thread = "none"
    /\ work = 0
    /\ wprinted = FALSE
    /\ result = VNone
    /\ error = NoExc
    /\ completed = FALSE
    /\ elapsed = 0
    /\ rwt = NoReturn
    /\ verdict = NoVerdict
    /\ escaped = NoExc
    /\ env_builtins = NoBuiltins
    /\ safe_builtins = SAFE_BUILTINS
    /\ dangerous_patterns = DANGEROUS_PATTERNS
    /\ other = NoOther
    /\ abandoned = NoAbandoned
    /\ started = 0
    /\ filtered = 0
    /\ defined = 0
    /\ resolved = 0
    /\ waited = 0
    /\ timed_out = FALSE
    /\ prev = NoPrev

\* the state a call of evaluate_user_code starts from (line 262)
Enter ==
    /\ pc' = "filter"
    /\ printed_output' = <<>>
    /\ safe_env' = <<>>
    /\ func' = "none"
    /\ i' = 0
    /\ thread' = "none"
    /\ work' = 0
    /\ wprinted' = FALSE
    /\ result' = VNone
    /\ error' = NoExc
    /\ completed' = FALSE
    /\ elapsed' = 0
    /\ rwt' = NoReturn
    /\ verdict' = NoVerdict
    /\ escaped' = NoExc
    /\ env_builtins' = NoBuiltins
    /\ started' = 0
    /\ filtered' = 0
    /\ defined' = 0
    /\ resolved' = 0
    /\ UNCHANGED <<moduleVars, other>>
    /\ waited' = 0
    /\ timed_out' = FALSE

Returned == pc \in {"done", "raised"}

\* the caller calls evaluate_user_code(code, function_name, test_cases)
Evaluate ==
    /\ pc = "idle"
    /\ args' \in Calls
    /\ prev' = NoPrev
    /\ Enter
    /\ UNCHANGED abandoned

\* the caller has used the outcome of the call and keeps nothing of it
Discard ==
    /\ Returned
    /\ pc' = "idle"
    /\ args' = NoCall
    /\ printed_output' = <<>>
    /\ safe_env' = <<>>
    /\ func' = "none"
    /\ i' = 0
    /\ thread' = "none"
    /\ work' = 0
    /\ wprinted' = FALSE
    /\ result' = VNone
    /\ error' = NoExc
    /\ completed' = FALSE
    /\ elapsed' = 0
    /\ rwt' = NoReturn
    /\ verdict' = NoVerdict
    /\ escaped' = NoExc
    /\ env_builtins' = NoBuiltins
    /\ started' = 0
    /\ filtered' = 0
    /\ defined' = 0
    /\ resolved' = 0
    /\ UNCHANGED <<moduleVars, other, abandoned>>
    /\ waited' = 0
    /\ timed_out' = FALSE
    /\ prev' = NoPrev

\* the caller calls it again with the arguments of the call that just returned
EvaluateAgain ==
    /\ Returned
    /\ args' = args
    /\ prev' = [pc |-> pc, verdict |-> verdict, escaped |-> escaped,
                timed_out |-> timed_out]
    /\ Enter
    /\ UNCHANGED abandoned

\* evaluate_user_code returns (passed, message)
Return(passed, message) ==
    /\ pc' = "done"
    /\ verdict' = Verdict(passed, message)
    /\ escaped' = NoExc

\* an exception leaves evaluate_user_code
Escape(e) ==
    /\ pc' = "raised"
    /\ verdict' = NoVerdict
    /\ escaped' = e

\* lines 264-276: the security check, then the environment and the print capture
Filter ==
    /\ pc = "filter"
    /\ LET r == check_code_security(args.code.text) IN
       IF ~r.is_safe
       THEN Return(FALSE, r.message) /\ UNCHANGED <<safe_env, env_builtins>>
       ELSE /\ safe_env' = <<"__builtins__", "print">>
            /\ env_builtins' = safe_builtins          \* SAFE_BUILTINS.copy()
            /\ pc' = "define"
            /\ UNCHANGED <<verdict, escaped>>
    /\ filtered' = filtered + 1
    /\ UNCHANGED <<args, moduleVars, other, abandoned, printed_output, func, i, workerVars, rwt,
                   started, defined, resolved, waited, timed_out, prev>>

\* which clause of the try statement of lines 279-291 handles an exception
definition_handler(type) ==
    IF IsInstance(type, "SyntaxError") THEN "syntax"
    ELSE IF IsInstance(type, "IndentationError") THEN "indentation"
    ELSE IF IsInstance(type, "Exception") THEN "generic"
    ELSE "none"

\* format_syntax_error(error, code), for an error at line 1 of a one-line text
format_syntax_error(type, code) ==
    COMMON_MISTAKES["syntax_error"].message
        \o <<"Error at line", "1", "invalid syntax", "-> 1:">> \o code
        \o COMMON_MISTAKES["syntax_error"].suggestion

\* the message of each except clause of the definition step
definition_message(type, text, code) ==
    CASE definition_handler(type) = "syntax" -> format_syntax_error(type, code)
      [] definition_handler(type) = "indentation" ->
            COMMON_MISTAKES["indentation_error"].message \o <<":">> \o text
                \o COMMON_MISTAKES["indentation_error"].suggestion
      [] OTHER ->
            <<"Error while defining your code:", type, ":">> \o text
                \o <<"Check your function definition for errors">>

\* what compile() and exec() of the submission raise, if anything
definition_error(program) ==
    IF program.compile # "ok" THEN Exc(program.compile, <<"invalid syntax">>)
    ELSE IF program.exec = "raise" THEN program.exc
    ELSE NoExc

\* lines 279-291: compile and exec the submission in the caller's thread
Define ==
    /\ pc = "define"
    /\ defined' = defined + 1
    /\ LET program == args.code.program
           e == definition_error(program)
       IN  IF program.compile = "ok" /\ program.exec = "loop"
           THEN \* exec never returns
                /\ pc' = "hung"
                /\ UNCHANGED <<safe_env, env_builtins, moduleVars, printed_output,
                               verdict, escaped>>
           ELSE IF e # NoExc
           THEN /\ UNCHANGED <<safe_env, env_builtins, moduleVars, printed_output>>
                /\ IF definition_handler(e.type) = "none"
                   THEN Escape(e)
                   ELSE IF definition_handler(e.type) # "syntax" /\ e.str_raises
                   THEN Escape(e)
                   ELSE Return(FALSE, definition_message(e.type, e.text, args.code.text))
           ELSE /\ safe_env' = safe_env \o program.defs
                /\ env_builtins' =
                      IF program.effect = "rebind"
                      THEN [env_builtins EXCEPT !["len"] = "user"] ELSE env_builtins
                /\ safe_builtins' =
                      IF program.effect = "walk"
                      THEN [safe_builtins EXCEPT !["len"] = "user"] ELSE safe_builtins
                /\ dangerous_patterns' =
                      IF program.effect = "walk" THEN <<>> ELSE dangerous_patterns
                /\ printed_output' =
                      IF program.top_prints
                      THEN Append(printed_output, "out") ELSE printed_output
                /\ pc' = "resolve"
                /\ UNCHANGED <<verdict, escaped>>
    /\ UNCHANGED <<args, other, abandoned, func, i, workerVars, rwt,
                   started, filtered, resolved, waited, timed_out, prev>>

\* `name in safe_env`
InEnv(name, env) == \E k \in 1..Len(env) : env[k] = name

\* callable(safe_env.get(k)) and not k.startswith('_')
IsUserFunction(k) == k # "__builtins__"

RECURSIVE user_functions(_)
user_functions(env) ==
    IF env = <<>> THEN <<>>
    ELSE (IF IsUserFunction(Head(env)) THEN <<Head(env)>> ELSE <<>>)
            \o user_functions(Tail(env))

wrong_function_name_message(function_name, env) ==
    COMMON_MISTAKES["wrong_function_name"].message
        \o <<"Expected function:", function_name>>
        \o (IF user_functions(env) # <<>> THEN <<"Found:">> \o user_functions(env) ELSE <<>>)
        \o COMMON_MISTAKES["wrong_function_name"].suggestion

\* faulty variant: a missing target sends the harness back to the definition step
Resolve_retries_definition ==
    /\ pc = "resolve"
    /\ IF ~InEnv(args.function_name, safe_env)
       THEN pc' = "define" /\ UNCHANGED <<func, verdict, escaped>>
       ELSE /\ func' = args.function_name
            /\ pc' = "case"
            /\ UNCHANGED <<verdict, escaped>>
    /\ resolved' = resolved + 1
    /\ UNCHANGED <<args, moduleVars, other, abandoned, printed_output, safe_env, env_builtins, i, workerVars,
                   rwt, started, filtered, defined, waited, timed_out, prev>>

\* lines 293-307: look the target up in the environment
Resolve ==
    /\ pc = "resolve"
    /\ IF ~InEnv(args.function_name, safe_env)
       THEN /\ Return(FALSE, wrong_function_name_message(args.function_name, safe_env))
            /\ UNCHANGED func
       ELSE /\ func' = args.function_name
            /\ pc' = "case"
            /\ UNCHANGED <<verdict, escaped>>
    /\ resolved' = resolved + 1
    /\ UNCHANGED <<args, moduleVars, other, abandoned, printed_output, safe_env, env_builtins, i, workerVars,
                   rwt, started, filtered, defined, waited, timed_out, prev>>

(***************************************************************************)
(* The test loop (lines 310-345) and run_with_timeout (lines 217-247).     *)
(***************************************************************************)
\* what func(*inputs) does, for the object the name is bound to in safe_env
CallOf(f, program, inputs) ==
    CASE f = "print" -> Ret(VNone, TRUE, 0)           \* capture_print
      [] f = "__builtins__" -> Raise(E_NotCallable)  \* the dict of builtins
      [] OTHER -> program.body[inputs]

\* the call the current worker makes
Current == CallOf(func, args.code.program, args.test_cases[i].inputs)

\* lines 343-345: the for loop is exhausted
AllPassed ==
    /\ pc = "case"
    /\ i = Len(args.test_cases)
    /\ Return(TRUE, <<"All", Len(args.test_cases), "test cases passed!">>)
    /\ UNCHANGED <<args, moduleVars, other, abandoned, printed_output, safe_env, env_builtins, func, i, workerVars, rwt, historyVars>>

\* faulty variant: the sink is not cleared before the case
StartCase_keeps_sink ==
    /\ pc = "case"
    /\ i < Len(args.test_cases)
    /\ i' = i + 1
    /\ result' = VNone
    /\ error' = NoExc
    /\ completed' = FALSE
    /\ thread' = "running"
    /\ work' = CallOf(func, args.code.program, args.test_cases[i + 1].inputs).cost
    /\ wprinted' = FALSE
    /\ elapsed' = 0
    /\ started' = started + 1
    /\ pc' = "join"
    /\ UNCHANGED <<args, moduleVars, other, abandoned, printed_output, safe_env, env_builtins, func, rwt,
                   verdict, escaped, filtered, defined, resolved, waited, timed_out, prev>>

\* faulty variant: the sink is cleared once, before the first case
StartCase_clears_once ==
    /\ pc = "case"
    /\ i < Len(args.test_cases)
    /\ i' = i + 1
    /\ printed_output' = IF i = 0 THEN <<>> ELSE printed_output
    /\ result' = VNone
    /\ error' = NoExc
    /\ completed' = FALSE
    /\ thread' = "running"
    /\ work' = CallOf(func, args.code.program, args.test_cases[i + 1].inputs).cost
    /\ wprinted' = FALSE
    /\ elapsed' = 0
    /\ started' = started + 1
    /\ pc' = "join"
    /\ UNCHANGED <<args, moduleVars, other, abandoned, safe_env, env_builtins, func, rwt, verdict, escaped,
                   filtered, defined, resolved, waited, timed_out, prev>>

\* lines 310-314 and 222-236: clear the sink, make the cells, start the thread,
\* enter thread.join(timeout)
StartCase ==
    /\ pc = "case"
    /\ i < Len(args.test_cases)
    /\ i' = i + 1
    /\ printed_output' = <<>>
    /\ result' = VNone
    /\ error' = NoExc
    /\ completed' = FALSE
    /\ thread' = "running"
    /\ work' = CallOf(func, args.code.program, args.test_cases[i + 1].inputs).cost
    /\ wprinted' = FALSE
    /\ elapsed' = 0
    /\ started' = started + 1
    /\ pc' = "join"
    /\ UNCHANGED <<args, moduleVars, other, abandoned, safe_env, env_builtins, func, rwt, verdict, escaped,
                   filtered, defined, resolved, waited, timed_out, prev>>

\* faulty variant: the print primitive records nothing in the sink
capture_print_unrecorded ==
    /\ thread = "running"
    /\ Current.prints
    /\ ~wprinted
    /\ wprinted' = TRUE
    /\ UNCHANGED <<pc, args, moduleVars, other, abandoned, printed_output, safe_env, env_builtins, func, i, thread, work, result,
                   error, completed, elapsed, rwt, verdict, escaped, historyVars>>

\* capture_print (lines 273-274), called by the worker
capture_print ==
    /\ thread = "running"
    /\ Current.prints
    /\ ~wprinted
    /\ printed_output' = Append(printed_output, "out")
    /\ wprinted' = TRUE
    /\ UNCHANGED <<pc, args, moduleVars, other, abandoned, safe_env, env_builtins, func, i, thread, work, result, error,
                   completed, elapsed, rwt, verdict, escaped, historyVars>>

\* a second passes while the caller is in thread.join and the worker is busy
Tick ==
    /\ pc = "join"
    /\ thread = "running"
    /\ elapsed < TIMEOUT_SECONDS
    /\ Current.prints => wprinted
    /\ Current.kind = "loop" \/ work > 0
    /\ elapsed' = elapsed + 1
    /\ waited' = IF elapsed + 1 > waited THEN elapsed + 1 ELSE waited
    /\ work' = IF Current.kind = "loop" THEN work ELSE work - 1
    /\ UNCHANGED <<pc, args, moduleVars, other, abandoned, printed_output, safe_env, env_builtins, func, i, thread, wprinted,
                   result, error, completed, rwt, verdict, escaped,
                   started, filtered, defined, resolved, timed_out, prev>>

\* target() of lines 226-231 comes to its end.  A worker the caller no longer
\* waits for ends whenever its call ends.
target ==
    /\ thread = "running"
    /\ Current.kind # "loop"
    /\ Current.prints => wprinted
    /\ work = 0 \/ pc \notin {"join", "alive"}
    /\ thread' = "dead"
    /\ work' = 0
    /\ IF Current.kind = "return"
       THEN result' = Current.value /\ completed' = TRUE /\ UNCHANGED error
       ELSE IF IsInstance(Current.exc.type, "Exception")
       THEN error' = Current.exc /\ UNCHANGED <<result, completed>>
       ELSE UNCHANGED <<result, error, completed>>
    /\ UNCHANGED <<pc, args, moduleVars, other, abandoned, printed_output, safe_env, env_builtins, func, i, wprinted, elapsed,
                   rwt, verdict, escaped, historyVars>>

\* faulty variant: the wait may end while the worker runs and time is left
join_returns_early ==
    /\ pc = "join"
    /\ pc' = "alive"
    /\ UNCHANGED <<args, moduleVars, other, abandoned, printed_output, safe_env, env_builtins, func, i,
                   workerVars, rwt, verdict, escaped, historyVars>>

\* faulty variant: thread.join() without the timeout
join_without_timeout ==
    /\ pc = "join"
    /\ thread = "dead"
    /\ pc' = "alive"
    /\ UNCHANGED <<args, moduleVars, other, abandoned, printed_output, safe_env, env_builtins, func, i, workerVars, rwt,
                   verdict, escaped, historyVars>>

\* thread.join(timeout) of line 236 returns
join ==
    /\ pc = "join"
    /\ thread = "dead" \/ elapsed = TIMEOUT_SECONDS
    /\ pc' = "alive"
    /\ UNCHANGED <<args, moduleVars, other, abandoned, printed_output, safe_env, env_builtins, func, i, workerVars, rwt,
                   verdict, escaped, historyVars>>

\* lines 238-247: what run_with_timeout returns, given is_alive() and the cells
run_with_timeout_result(alive, res, err, comp) ==
    IF alive
    THEN [result |-> VNone, success |-> FALSE, error_msg |-> timeout_message]
    ELSE IF err # NoExc /\ ~err.falsy
    THEN [result |-> VNone, success |-> FALSE, error_msg |-> err.text]
    ELSE [result |-> res, success |-> comp, error_msg |-> <<>>]

\* lines 238-247
run_with_timeout ==
    /\ pc = "alive"
    /\ timed_out' = (timed_out \/ thread = "running")
    /\ IF thread # "running" /\ error # NoExc /\ ~error.falsy /\ error.str_raises
       THEN Escape(error) /\ UNCHANGED rwt
       ELSE /\ rwt' = run_with_timeout_result(thread = "running", result, error, completed)
            /\ pc' = "judge"
            /\ UNCHANGED <<verdict, escaped>>
    /\ UNCHANGED <<args, moduleVars, other, abandoned, printed_output, safe_env, env_builtins, func, i, workerVars,
                   started, filtered, defined, resolved, waited, prev>>

\* lines 320-327
error_type_of(error_msg) ==
    IF Contains(error_msg, "NameError") THEN "name_error"
    ELSE IF Contains(error_msg, "TypeError") THEN "type_error"
    ELSE IF Contains(error_msg, "IndexError") THEN "index_error"
    ELSE "runtime"

\* lines 316-329: the verdict for a call that did not succeed
failure_message(error_msg) ==
    IF Contains(Lower(error_msg), "exceeded")
    THEN error_msg
    ELSE format_runtime_error("Exception", error_msg, error_type_of(error_msg))

print_instead_of_return_message ==
    COMMON_MISTAKES["print_instead_of_return"].message
        \o COMMON_MISTAKES["print_instead_of_return"].suggestion

no_return_message ==
    COMMON_MISTAKES["no_return"].message \o COMMON_MISTAKES["no_return"].suggestion

\* faulty variant: the comparison with the expected value is made first
judge_case_compares_first(r, printed, tc) ==
    IF ~r.success
    THEN [act |-> "return", message |-> failure_message(r.error_msg)]
    ELSE IF NeRaises(r.result, tc.expected)
    THEN [act |-> "raise", message |-> <<"__eq__">>]
    ELSE IF ~PyNe(r.result, tc.expected)
    THEN [act |-> "continue", message |-> <<>>]
    ELSE IF IsNone(r.result) /\ printed # <<>>
    THEN [act |-> "return", message |-> print_instead_of_return_message]
    ELSE IF IsNone(r.result) /\ printed = <<>>
    THEN [act |-> "return", message |-> no_return_message]
    ELSE IF StrRaises(tc.expected) \/ StrRaises(r.result)
    THEN [act |-> "raise", message |-> <<"__repr__">>]
    ELSE [act |-> "return",
          message |-> format_test_failure(tc.inputs, tc.expected, r.result)]

\* faulty variant: a case that did not succeed is skipped
judge_case_skips_failures(r, printed, tc) ==
    IF ~r.success
    THEN [act |-> "continue", message |-> <<>>]
    ELSE IF IsNone(r.result) /\ printed # <<>>
    THEN [act |-> "return", message |-> print_instead_of_return_message]
    ELSE IF IsNone(r.result) /\ printed = <<>>
    THEN [act |-> "return", message |-> no_return_message]
    ELSE IF NeRaises(r.result, tc.expected)
    THEN [act |-> "raise", message |-> <<"__eq__">>]
    ELSE IF PyNe(r.result, tc.expected)
    THEN [act |-> "return", message |-> <<"Test Case Failed">>]
    ELSE [act |-> "continue", message |-> <<>>]

\* faulty variant: a value mismatch is noted and the loop goes on to the next case
judge_case_no_failfast(r, printed, tc) ==
    IF ~r.success
    THEN [act |-> "return", message |-> failure_message(r.error_msg)]
    ELSE IF IsNone(r.result) /\ printed # <<>>
    THEN [act |-> "return", message |-> print_instead_of_return_message]
    ELSE IF IsNone(r.result) /\ printed = <<>>
    THEN [act |-> "return", message |-> no_return_message]
    ELSE IF NeRaises(r.result, tc.expected)
    THEN [act |-> "raise", message |-> <<"__eq__">>]
    ELSE [act |-> "continue", message |-> <<>>]

\* faulty variant: a value of another type than the expected one never passes
judge_case_type_strict(r, printed, tc) ==
    IF ~r.success
    THEN [act |-> "return", message |-> failure_message(r.error_msg)]
    ELSE IF IsNone(r.result) /\ printed # <<>>
    THEN [act |-> "return", message |-> print_instead_of_return_message]
    ELSE IF IsNone(r.result) /\ printed = <<>>
    THEN [act |-> "return", message |-> no_return_message]
    ELSE IF NeRaises(r.result, tc.expected)
    THEN [act |-> "raise", message |-> <<"__eq__">>]
    ELSE IF PyNe(r.result, tc.expected) \/ r.result.t # tc.expected.t
    THEN IF StrRaises(tc.expected) \/ StrRaises(r.result)
         THEN [act |-> "raise", message |-> <<"__repr__">>]
         ELSE [act |-> "return",
               message |-> format_test_failure(tc.inputs, tc.expected, r.result)]
    ELSE [act |-> "continue", message |-> <<>>]

\* lines 316-341: what the harness does with what run_with_timeout returned:
\* return a failing verdict, let an exception out, or go on to the next case
judge_case(r, printed, tc) ==
    IF ~r.success
    THEN [act |-> "return", message |-> failure_message(r.error_msg)]
    ELSE IF IsNone(r.result) /\ printed # <<>>
    THEN [act |-> "return", message |-> print_instead_of_return_message]
    ELSE IF IsNone(r.result) /\ printed = <<>>
    THEN [act |-> "return", message |-> no_return_message]
    ELSE IF NeRaises(r.result, tc.expected)
    THEN [act |-> "raise", message |-> <<"__eq__">>]
    ELSE IF PyNe(r.result, tc.expected)
    THEN IF StrRaises(tc.expected) \/ StrRaises(r.result)
         THEN [act |-> "raise", message |-> <<"__repr__">>]
         ELSE [act |-> "return",
               message |-> format_test_failure(tc.inputs, tc.expected, r.result)]
    ELSE [act |-> "continue", message |-> <<>>]

\* lines 316-341
Judge ==
    /\ pc = "judge"
    /\ LET j == judge_case(rwt, printed_output, args.test_cases[i]) IN
       CASE j.act = "return" -> Return(FALSE, j.message)
         [] j.act = "raise" -> Escape(Exc("Exception", j.message))
         [] OTHER -> pc' = "case" /\ UNCHANGED <<verdict, escaped>>
    /\ UNCHANGED <<args, moduleVars, other, abandoned, printed_output, safe_env, env_builtins, func, i, workerVars, rwt, historyVars>>

Next ==
    \/ Evaluate
    \/ EvaluateAgain
    \/ Discard
    \/ Filter
    \/ Define
    \/ Resolve
    \/ AllPassed
    \/ StartCase
    \/ capture_print
    \/ Tick
    \/ target
    \/ join
    \/ run_with_timeout
    \/ Judge

Spec == Init /\ [][Next]_vars

\* The interpreter keeps running the caller's thread and the worker, and time
\* passes; nothing obliges the caller to call evaluate_user_code (again).
Run ==
    \/ Filter \/ Define \/ Resolve \/ AllPassed \/ StartCase \/ capture_print
    \/ Tick \/ target \/ join \/ run_with_timeout \/ Judge

FairSpec == Spec /\ WF_vars(Run)

(***************************************************************************)
(* Two calls at a time.  The caller first makes a call alone, then makes   *)
(* it again while another thread calls evaluate_user_code too.  Of the     *)
(* other call the model keeps what can reach the first one: its reading    *)
(* and writing of the module-level tables, and the seconds in which its    *)
(* worker, not the first call's, has the interpreter.                      *)
(***************************************************************************)
firstCallVars == <<pc, args, printed_output, safe_env, env_builtins, func, i,
                   workerVars, rwt, verdict, escaped, historyVars>>

SameOutcome(c) == [x \in Inputs |-> c]

ConcurrentCalls ==
    { Arguments(t, Benign, "solve", OneCase) : t \in {BenignText, <<"import", "os">>} }
    \cup { Arguments(BenignText, Program("ok", "ok", NoExc, <<"solve">>, SameOutcome(c)),
                     "solve", OneCase) :
             c \in {Ret(VNone, TRUE, 1), Ret(VInt(2), FALSE, 1), Raise(E_Name), Loop} }

OtherCalls ==
    { [pc |-> "filter", text |-> t, effect |-> e, work |-> w] :
        t \in {BenignText, <<"import", "os">>}, e \in {"none", "walk"},
        w \in {1, TIMEOUT_SECONDS} }

EvaluateAlone ==
    /\ pc = "idle"
    /\ args' \in ConcurrentCalls
    /\ prev' = NoPrev
    /\ Enter
    /\ UNCHANGED abandoned

\* the same call again, this time with company
EvaluateWithOther ==
    /\ Returned
    /\ prev = NoPrev
    /\ args' = args
    /\ prev' = [pc |-> pc, verdict |-> verdict, escaped |-> escaped,
                timed_out |-> timed_out]
    /\ Enter
    /\ UNCHANGED abandoned

\* another thread calls evaluate_user_code while the first call is in progress
OtherEvaluate ==
    /\ other.pc = "none"
    /\ prev # NoPrev
    /\ ~Returned
    /\ other' \in OtherCalls
    /\ UNCHANGED <<firstCallVars, moduleVars, abandoned>>

\* lines 264-270 in the other call
OtherFilter ==
    /\ other.pc = "filter"
    /\ other' = [other EXCEPT !.pc = IF check_code_security(other.text).is_safe
                                      THEN "define" ELSE "done"]
    /\ UNCHANGED <<firstCallVars, moduleVars, abandoned>>

\* lines 279-291 in the other call, then the start of its worker
OtherDefine ==
    /\ other.pc = "define"
    /\ other' = [other EXCEPT !.pc = "running"]
    /\ safe_builtins' =
          IF other.effect = "walk"
          THEN [safe_builtins EXCEPT !["len"] = "user"] ELSE safe_builtins
    /\ dangerous_patterns' = IF other.effect = "walk" THEN <<>> ELSE dangerous_patterns
    /\ UNCHANGED <<firstCallVars, abandoned>>

\* a second passes in which the worker of the other call has the interpreter:
\* the first call's worker, if it runs, gets no further, and its caller waits on
OtherRuns ==
    /\ other.pc = "running"
    /\ other' = [other EXCEPT !.work = other.work - 1,
                              !.pc = IF other.work = 1 THEN "done" ELSE "running"]
    /\ IF pc = "join" /\ thread = "running" /\ elapsed < TIMEOUT_SECONDS
       THEN /\ elapsed' = elapsed + 1
            /\ waited' = IF elapsed + 1 > waited THEN elapsed + 1 ELSE waited
       ELSE UNCHANGED <<elapsed, waited>>
    /\ UNCHANGED <<pc, args, moduleVars, abandoned, printed_output, safe_env, env_builtins,
                   func, i, thread, work, wprinted, result, error, completed, rwt, verdict,
                   escaped, started, filtered, defined, resolved, timed_out, prev>>

TwoCallsNext ==
    \/ EvaluateAlone
    \/ EvaluateWithOther
    \/ Filter
    \/ Define
    \/ Resolve
    \/ AllPassed
    \/ StartCase
    \/ capture_print
    \/ Tick
    \/ target
    \/ join
    \/ run_with_timeout
    \/ Judge
    \/ OtherEvaluate
    \/ OtherFilter
    \/ OtherDefine
    \/ OtherRuns

TwoCallsSpec == Init /\ [][TwoCallsNext]_vars

(***************************************************************************)
(* Abandoned workers.  A worker still running at the timeout is a daemon   *)
(* thread nobody waits for (lines 234, 238-242).  It goes on after the     *)
(* caller's next call of evaluate_user_code, and what it then writes goes  *)
(* to the cells of its own invocation and the sink of its own evaluation.  *)
(***************************************************************************)
Slow(c) == [c EXCEPT !.cost = TIMEOUT_SECONDS + 1]

LateCalls ==
    { Arguments(BenignText, Program("ok", "ok", NoExc, <<"solve">>, SameOutcome(c)),
                "solve", tc) :
        c \in { Slow(Ret(VInt(2), TRUE, 0)), Slow(Raise(E_Name)), Loop,
                [Loop EXCEPT !.prints = TRUE],
                Ret(VInt(1), FALSE, 1), Ret(VNone, FALSE, 1), Raise(E_Index) },
        tc \in { OneCase, <<[inputs |-> 1, expected |-> VInt(2)]>> } }

\* the caller's next call; the worker it had left running, if any, runs on,
\* and a call that prints may print again on its way
EvaluateNext ==
    /\ pc = "idle" \/ Returned
    /\ args' \in LateCalls
    /\ prev' = NoPrev
    /\ abandoned' =
          IF thread = "running"
          THEN [state |-> "running", call |-> Current, wprinted |-> FALSE,
                printed_output |-> printed_output,
                result |-> result, error |-> error, completed |-> completed]
          ELSE abandoned
    /\ Enter

\* capture_print (lines 273-274), called by the abandoned worker
late_capture_print ==
    /\ abandoned.state = "running"
    /\ abandoned.call.prints
    /\ ~abandoned.wprinted
    /\ abandoned' = [abandoned EXCEPT !.wprinted = TRUE,
                                      !.printed_output = Append(@, "out")]
    /\ UNCHANGED <<firstCallVars, moduleVars, other>>

\* faulty variant: the cells are shared by all invocations
late_target_shared_cells ==
    /\ abandoned.state = "running"
    /\ abandoned.call.kind # "loop"
    /\ abandoned' = [abandoned EXCEPT !.state = "ended"]
    /\ IF abandoned.call.kind = "return"
       THEN result' = abandoned.call.value /\ completed' = TRUE /\ UNCHANGED error
       ELSE error' = abandoned.call.exc /\ UNCHANGED <<result, completed>>
    /\ UNCHANGED <<pc, args, moduleVars, other, printed_output, safe_env, env_builtins,
                   func, i, thread, work, wprinted, elapsed, rwt, verdict, escaped,
                   historyVars>>

\* target() of lines 226-231 comes to its end in the abandoned worker
late_target ==
    /\ abandoned.state = "running"
    /\ abandoned.call.kind # "loop"
    /\ abandoned' =
          IF abandoned.call.kind = "return"
          THEN [abandoned EXCEPT !.state = "ended", !.result = abandoned.call.value,
                                 !.completed = TRUE]
          ELSE IF IsInstance(abandoned.call.exc.type, "Exception")
          THEN [abandoned EXCEPT !.state = "ended", !.error = abandoned.call.exc]
          ELSE [abandoned EXCEPT !.state = "ended"]
    /\ UNCHANGED <<firstCallVars, moduleVars, other>>

AbandonedNext ==
    \/ EvaluateNext
    \/ Filter
    \/ Define
    \/ Resolve
    \/ AllPassed
    \/ StartCase
    \/ capture_print
    \/ Tick
    \/ target
    \/ join
    \/ run_with_timeout
    \/ Judge
    \/ late_capture_print
    \/ late_target

AbandonedSpec == Init /\ [][AbandonedNext]_vars

(***************************************************************************)
(* Properties.                                                             *)
(***************************************************************************)
\* some rule of the table, as it is now, matches the text
MatchesSomeRule(text) ==
    \E k \in 1..Len(dangerous_patterns) : re_search(dangerous_patterns[k], text)

\* the submission compiles, its top-level code ends, and it defines the target
DefinesTarget(a) ==
    /\ a.code.program.compile = "ok"
    /\ a.code.program.exec = "ok"
    /\ InEnv(a.function_name, a.code.program.defs)

\* what the target does on the inputs of case k of the call a
CaseCall(a, k) == CallOf(a.function_name, a.code.program, a.test_cases[k].inputs)

\* a worker is or was running the current case
AtCase == i >= 1 /\ pc \in {"join", "alive", "judge", "case", "done", "raised"}

\* the call of the current case raises an ordinary exception: one that
\* `except Exception` catches, that is truthy and that str() can format
RaisesOrdinary(c) ==
    /\ c.kind = "raise"
    /\ IsInstance(c.exc.type, "Exception")
    /\ ~c.exc.falsy
    /\ ~c.exc.str_raises

IsPrefix(p, s) == Len(p) <= Len(s) /\ \A k \in 1..Len(p) : s[k] = p[k]

IsSecurityViolation(v) ==
    ~v.passed /\ v.message # <<>> /\ v.message[1] = SecurityErrorPrefix

IsTimeout(v) == ~v.passed /\ v.message = timeout_message

\* C1: a source matching a rule of the table gets the failing SecurityViolation
\* verdict, and in that evaluation nothing is compiled or executed and no
\* worker is started
C1_SecurityViolationFirst ==
    (pc # "idle" /\ MatchesSomeRule(args.code.text)) =>
        /\ defined = 0
        /\ started = 0
        /\ thread = "none"
        /\ pc \in {"filter", "done"}
        /\ pc = "done" => IsSecurityViolation(verdict)

C1_Witness ==
    /\ pc = "done"
    /\ MatchesSomeRule(args.code.text)
    /\ args.code.program.exec = "loop"
    /\ IsSecurityViolation(verdict)

\* C2: every call of evaluate_user_code eventually returns, whatever the
\* submission does at definition time or in a test case
C2_AlwaysReturns == (pc = "filter") ~> Returned

\* C3: the caller never waits in join for more than the deadline, and a call of
\* the target that never ends leads to the failing Timeout verdict
C3_TimeoutOnNonTermination ==
    /\ [](waited <= TIMEOUT_SECONDS)
    /\ (pc = "join" /\ Current.kind = "loop")
          ~> (pc = "done" /\ IsTimeout(verdict) /\ waited = TIMEOUT_SECONDS)

C3_Witness ==
    /\ pc = "done"
    /\ i >= 1
    /\ Current.kind = "loop"
    /\ IsTimeout(verdict)
    /\ waited = TIMEOUT_SECONDS
    /\ thread = "running"

\* the call of case k returns, within the deadline, a value equal to the expected one
ReturnsExpected(a, k) ==
    LET c == CaseCall(a, k) IN
    /\ c.kind = "return"
    /\ c.cost < TIMEOUT_SECONDS
    /\ ~NeRaises(c.value, a.test_cases[k].expected)
    /\ ~PyNe(c.value, a.test_cases[k].expected)

\* C4: a submission that passes the filter, defines the target and returns the
\* expected value on every case gets passed = true
C4_ExpectedValuesPass ==
    ( /\ Returned
      /\ ~MatchesSomeRule(args.code.text)
      /\ DefinesTarget(args)
      /\ \A k \in 1..Len(args.test_cases) : ReturnsExpected(args, k) )
    => (pc = "done" /\ verdict.passed)

\* C5: no exception leaves evaluate_user_code
C5_NoExceptionEscapes == pc # "raised"

\* the call of the current case prints and returns None within the deadline
PrintsAndReturnsNone ==
    /\ AtCase
    /\ Current.kind = "return"
    /\ IsNone(Current.value)
    /\ Current.prints
    /\ Current.cost < TIMEOUT_SECONDS

\* C6: a case whose call prints and returns None ends the evaluation with the
\* print-instead-of-return verdict: the harness neither goes on to another case,
\* nor passes, nor reports a missing return
C6_PrintInsteadOfReturn ==
    PrintsAndReturnsNone =>
        /\ pc \in {"join", "alive", "judge", "done"}
        /\ pc = "done" =>
             verdict = Verdict(FALSE, print_instead_of_return_message)

C6_Witness ==
    /\ PrintsAndReturnsNone
    /\ pc = "done"
    /\ func = "solve"
    /\ verdict = Verdict(FALSE, print_instead_of_return_message)

\* the category of the closed set that an exception of the given type belongs to
KindCategory(type) ==
    IF IsInstance(type, "NameError") THEN "NameError"
    ELSE IF IsInstance(type, "TypeError") THEN "TypeError"
    ELSE IF IsInstance(type, "IndexError") THEN "IndexError"
    ELSE IF IsInstance(type, "KeyError") THEN "KeyError"
    ELSE IF IsInstance(type, "ArithmeticError") THEN "ArithmeticError"
    ELSE "Other"

\* the category whose template a runtime-failure message is built from
VerdictCategory(v) ==
    IF IsPrefix(COMMON_MISTAKES["name_error"].message, v.message) THEN "NameError"
    ELSE IF IsPrefix(COMMON_MISTAKES["type_error"].message, v.message) THEN "TypeError"
    ELSE IF IsPrefix(COMMON_MISTAKES["index_error"].message, v.message) THEN "IndexError"
    ELSE "Other"

\* C7: when the worker ends a case by raising, in the submission's function, an
\* exception of kind K, the category of the verdict is the one that
\* corresponds to K
C7_CategoryByKind ==
    (pc = "done" /\ i >= 1 /\ func = "solve" /\ RaisesOrdinary(Current)) =>
        VerdictCategory(verdict) = KindCategory(Current.exc.type)

\* C8: the message of a runtime-failure verdict names the inputs of the case
\* on which the exception was raised
C8_MessageNamesInputs ==
    (pc = "done" /\ i >= 1 /\ func = "solve" /\ RaisesOrdinary(Current)) =>
        Contains(verdict.message, StrInputs(args.test_cases[i].inputs))

\* case k can pass / passes whatever the timing: its call returns, within
\* (resp. strictly within) the deadline, a value that is not None and equals
\* the expected one
CaseMayPass(a, k) ==
    LET c == CaseCall(a, k) IN
    /\ c.kind = "return"
    /\ c.cost <= TIMEOUT_SECONDS
    /\ ~IsNone(c.value)
    /\ ~NeRaises(c.value, a.test_cases[k].expected)
    /\ ~PyNe(c.value, a.test_cases[k].expected)

CaseMustPass(a, k) == CaseMayPass(a, k) /\ CaseCall(a, k).cost < TIMEOUT_SECONDS

\* the failing message v is about what case k of the call a did
DescribesCase(v, a, k) ==
    LET c == CaseCall(a, k)
        tc == a.test_cases[k]
    IN  CASE c.kind = "loop" -> v = timeout_message
          [] c.kind = "raise" ->
                RaisesOrdinary(c) => \A n \in 1..Len(c.exc.text) : Contains(v, c.exc.text[n])
          [] c.kind = "return" /\ c.cost > TIMEOUT_SECONDS -> v = timeout_message
          [] c.kind = "return" /\ c.cost = TIMEOUT_SECONDS /\ v = timeout_message -> TRUE
          [] c.kind = "return" /\ IsNone(c.value) ->
                v = (IF c.prints THEN print_instead_of_return_message ELSE no_return_message)
          [] OTHER ->
                /\ v[1] = "Test Case Failed"
                /\ v[3] = StrInputs(tc.inputs)
                /\ v[5] = Str(tc.expected)
                /\ v[7] = Str(c.value)

\* C9: workers are started one per case in list order, each only after every
\* earlier case has passed; a failing verdict is about the case the evaluation
\* stopped at, which does not pass, and no later case was started
C9_FailFast ==
    /\ started = i
    /\ AtCase => \A k \in 1..(i - 1) : CaseMayPass(args, k)
    /\ (pc = "done" /\ i >= 1 /\ ~verdict.passed) =>
          /\ ~CaseMustPass(args, i)
          /\ DescribesCase(verdict.message, args, i)
    /\ (pc = "done" /\ verdict.passed) =>
          /\ i = Len(args.test_cases)
          /\ i >= 1 => CaseMayPass(args, i)

C9_Witness ==
    /\ pc = "done"
    /\ ~verdict.passed
    /\ i = 1
    /\ started = 1
    /\ Len(args.test_cases) = 2
    /\ ~CaseMayPass(args, 1)
    /\ CaseMustPass(args, 2)

\* C10: a second call with the same arguments ends as the first one did
C10_Idempotent ==
    (Returned /\ prev.pc # "none") =>
        (pc = prev.pc /\ verdict = prev.verdict /\ escaped = prev.escaped)

\* C11: nothing a submission did is visible to a later evaluation: the
\* module-level tables SAFE_BUILTINS and DANGEROUS_PATTERNS are as they were
\* at import, and when the definition step begins the environment holds only
\* its two initial entries, its dict of builtins equals the table as it was at
\* import, and the sink is empty
C11_NothingLeaks ==
    /\ safe_builtins = SAFE_BUILTINS
    /\ dangerous_patterns = DANGEROUS_PATTERNS
    /\ pc = "define" =>
          /\ safe_env = <<"__builtins__", "print">>
          /\ env_builtins = SAFE_BUILTINS
          /\ printed_output = <<>>

\* the construct a rule forbids: the module of `import M`, the function of
\* `F(`, the attribute of `.A`
Construct(rule) == IF rule.a \in {"import", "."} THEN rule.b ELSE rule.a

\* C12: the message of a SecurityViolation verdict names the construct that a
\* rule matching the source forbids; no rule gives a reason without it
C12_MessageNamesConstruct ==
    (pc = "done" /\ IsSecurityViolation(verdict)) =>
        \E k \in 1..Len(dangerous_patterns) :
            /\ re_search(dangerous_patterns[k], args.code.text)
            /\ Contains(verdict.message, Construct(dangerous_patterns[k]))

C12_Witness ==
    /\ pc = "done"
    /\ args.code.text = <<"import", "os">>
    /\ IsSecurityViolation(verdict)
    /\ Contains(verdict.message, "os")

\* the call of the current case returns, within the deadline, a value that is
\* not None and compares unequal to the expected one
ReturnsOtherValue ==
    /\ i >= 1
    /\ func = "solve"
    /\ Current.kind = "return"
    /\ Current.cost < TIMEOUT_SECONDS
    /\ ~IsNone(Current.value)
    /\ ~NeRaises(Current.value, args.test_cases[i].expected)
    /\ PyNe(Current.value, args.test_cases[i].expected)

\* C13: a case whose call returns a value, not None, that differs from the
\* expected one ends the evaluation with a failing verdict whose message shows
\* the input, the expected and the actual value, and has the type-mismatch
\* note exactly when the two values are of different types
C13_ValueMismatch ==
    (Returned /\ ReturnsOtherValue) =>
        /\ pc = "done"
        /\ ~verdict.passed
        /\ IsPrefix(<<"Test Case Failed", "Input:", StrInputs(args.test_cases[i].inputs),
                      "Expected:", Str(args.test_cases[i].expected),
                      "Got:", Str(Current.value)>>, verdict.message)
        /\ Contains(verdict.message, TypeMismatchNote)
              <=> (args.test_cases[i].expected.t # Current.value.t)

\* the call of the current case prints nothing and returns None within the deadline
ReturnsNoneSilently ==
    /\ AtCase
    /\ Current.kind = "return"
    /\ IsNone(Current.value)
    /\ ~Current.prints
    /\ Current.cost < TIMEOUT_SECONDS

FromRuntimeTemplate(message, text) ==
    \E error_type \in {"name_error", "type_error", "index_error", "runtime"} :
        message = format_runtime_error("Exception", text, error_type)

\* C15: the verdict is the Timeout one exactly when the worker was still
\* running at the deadline; a worker that ends in time by raising, whatever the
\* text of the exception, gives a message built from the runtime-error
\* template, not the bare text of the exception
C15_TimeoutOnlyAtDeadline ==
    /\ (pc = "done" /\ i >= 1) => (IsTimeout(verdict) <=> timed_out)
    /\ (pc = "done" /\ i >= 1 /\ func = "solve" /\ RaisesOrdinary(Current)) =>
          /\ ~timed_out
          /\ verdict.message # Current.exc.text
          /\ FromRuntimeTemplate(verdict.message, Current.exc.text)

\* C16: an invocation of run_with_timeout starts exactly one worker, and its
\* caller waits in join for at most the deadline: the wait goes on only while
\* the worker runs, and it ends when the worker has ended or the deadline has
\* elapsed, not before
C16_OneWorkerBoundedWait ==
    /\ [](elapsed <= TIMEOUT_SECONDS)
    /\ [](pc \in {"join", "alive"} => thread \in {"running", "dead"})
    /\ [][ /\ (pc # "join" /\ pc' = "join") =>
                (started' = started + 1 /\ thread' = "running" /\ elapsed' = 0)
           /\ (pc = "join" /\ pc' = "join") => started' = started
           /\ (pc = "join" /\ elapsed' # elapsed) =>
                (thread = "running" /\ elapsed' = elapsed + 1)
           /\ (pc = "join" /\ pc' # "join") =>
                (pc' = "alive" /\ (thread = "dead" \/ elapsed = TIMEOUT_SECONDS)) ]_vars

C16_Witness ==
    /\ pc = "alive"
    /\ started = 2
    /\ thread = "running"
    /\ elapsed = TIMEOUT_SECONDS

\* C17: when the call of a case raises, run_with_timeout returns to the
\* harness, and what it returns is a failure: success is false and there is
\* no result
C17_WorkerExceptionsFail ==
    (i >= 1 /\ Current.kind = "raise" /\ pc \in {"judge", "done", "raised"}) =>
        /\ pc # "raised"
        /\ ~rwt.success
        /\ IsNone(rwt.result)

\* the phase of an evaluation the caller is in: 1 FILTERING, 2 DEFINING,
\* 3 RESOLVING, 4 RUNNING, 5 ended (returned, raised, or stuck in exec)
Phase(p) ==
    CASE p = "filter" -> 1
      [] p = "define" -> 2
      [] p = "resolve" -> 3
      [] p \in {"case", "join", "alive", "judge"} -> 4
      [] p \in {"done", "raised", "hung"} -> 5
      [] OTHER -> 0

\* C18: within one evaluation the phases follow one another in the order
\* FILTERING, DEFINING, RESOLVING, RUNNING, end, each entered from the one
\* before it or left for the end; the filter, the definition step and the
\* lookup of the target run at most once, and so does each case
C18_PhaseOrder ==
    /\ [](filtered <= 1 /\ defined <= 1 /\ resolved <= 1)
    /\ [](started = i /\ i <= Len(args.test_cases))
    /\ [](Phase(pc) >= 2 => filtered = 1)
    /\ [](Phase(pc) \in 3..4 => defined = 1)
    /\ [](Phase(pc) = 4 => resolved = 1)
    /\ []((started >= 1 => resolved = 1) /\ (resolved = 1 => defined = 1))
    /\ [][ \/ pc' \in {"idle", "filter"} /\ pc \in {"idle", "done", "raised"}
           \/ Phase(pc) \in 1..3 /\ Phase(pc') = Phase(pc) + 1 /\ i' = i
           \/ Phase(pc) \in 1..4 /\ Phase(pc') = 5 /\ i' = i
           \/ Phase(pc) = 4 /\ Phase(pc') = 4 /\ i' \in {i, i + 1}
           \/ Phase(pc) = 5 /\ pc' = pc /\ i' = i ]_vars

C18_Witness ==
    /\ pc = "done"
    /\ verdict.passed
    /\ Len(args.test_cases) = 2
    /\ filtered = 1
    /\ defined = 1
    /\ resolved = 1
    /\ started = 2

\* C19: the cases are run one after the other in the order of the list: when
\* a worker is started, it is for the case after the current one, the worker
\* of the current case has ended, and the current case has passed
C19_SequentialCases ==
    [][ started' = started + 1 =>
          /\ thread # "running"
          /\ thread' = "running"
          /\ i' = i + 1
          /\ work' = CaseCall(args, i + 1).cost
          /\ i >= 1 =>
                /\ rwt.success
                /\ ~IsNone(rwt.result)
                /\ ~PyNe(rwt.result, args.test_cases[i].expected) ]_vars

C19_Witness ==
    /\ pc = "join"
    /\ i = 2
    /\ started = 2
    /\ thread = "running"
    /\ rwt.success

\* compile() or the top-level code of the submission raises
DefinitionFails(a) ==
    a.code.program.compile # "ok" \/ a.code.program.exec = "raise"

\* C20: when compiling the submission or running its top-level code raises,
\* the evaluation ends there with a failing verdict, which for a parse failure
\* shows the line of the error; the target is not looked up and no case is run
C20_DefinitionFailure ==
    (defined = 1 /\ DefinitionFails(args)) =>
        /\ pc = "done"
        /\ ~verdict.passed
        /\ verdict.message =
              definition_message(definition_error(args.code.program).type,
                                 definition_error(args.code.program).text, args.code.text)
        /\ args.code.program.compile # "ok" => Contains(verdict.message, "Error at line")
        /\ resolved = 0
        /\ started = 0

\* the wrong-function-name message whose Found list is the given list of names
NotFoundMessage(function_name, found) ==
    COMMON_MISTAKES["wrong_function_name"].message
        \o <<"Expected function:", function_name>>
        \o (IF found # <<>> THEN <<"Found:">> \o found ELSE <<>>)
        \o COMMON_MISTAKES["wrong_function_name"].suggestion

\* C21: when the target is not found, the Found list of the verdict is the
\* list of the public callables the submission defined: all of them, and no
\* other name
C21_FoundListsDefinitions ==
    (pc = "done" /\ resolved = 1 /\ func = "none") =>
        verdict.message = NotFoundMessage(args.function_name, args.code.program.defs)

\* C22: a target that is not among the names the submission defined gets the
\* wrong-function-name verdict and no case is run, also when the harness
\* itself bound that name in the environment
C22_UndefinedTargetFails ==
    (resolved = 1 /\ ~InEnv(args.function_name, args.code.program.defs)) =>
        /\ pc = "done"
        /\ started = 0
        /\ ~verdict.passed
        /\ IsPrefix(COMMON_MISTAKES["wrong_function_name"].message, verdict.message)

\* the first rule, in the order of the table, that matches the text
FirstRule(text) ==
    CHOOSE k \in 1..Len(dangerous_patterns) :
        /\ re_search(dangerous_patterns[k], text)
        /\ \A j \in 1..(k - 1) : ~re_search(dangerous_patterns[j], text)

\* what the filter is to return for the text
ExpectedCheck(text) ==
    IF MatchesSomeRule(text)
    THEN [is_safe |-> FALSE,
          message |-> <<SecurityErrorPrefix>> \o dangerous_patterns[FirstRule(text)].message]
    ELSE [is_safe |-> TRUE, message |-> <<>>]

\* C23: check_code_security returns the reason of the first rule of the table
\* that matches the source, wherever in the text the rules match, and
\* (True, "") when none matches; a verdict of the filter carries that reason
C23_FirstRuleInTableOrder ==
    pc # "idle" =>
        /\ check_code_security(args.code.text) = ExpectedCheck(args.code.text)
        /\ (pc = "done" /\ defined = 0) =>
              /\ ~ExpectedCheck(args.code.text).is_safe
              /\ verdict = Verdict(FALSE, ExpectedCheck(args.code.text).message)
        /\ defined = 1 => ExpectedCheck(args.code.text).is_safe

C23_Witness ==
    /\ pc = "done"
    /\ args.code.text = <<"open", "(", "import", "os">>
    /\ verdict = Verdict(FALSE, <<SecurityErrorPrefix>> \o DANGEROUS_PATTERNS[1].message)

\* C24: a call made while another call is in progress ends as it ended when
\* it was made alone
C24_SameVerdictAsAlone ==
    (Returned /\ prev # NoPrev /\ other # NoOther) =>
        (pc = prev.pc /\ verdict = prev.verdict /\ escaped = prev.escaped)

\* C25: a submission whose compilation fails with an IndentationError gets
\* the verdict of the indentation-error template, its message and its
\* suggestion, not that of the syntax-error template
C25_IndentationTemplate ==
    (pc = "done" /\ defined = 1 /\ args.code.program.compile = "IndentationError") =>
        /\ IsPrefix(COMMON_MISTAKES["indentation_error"].message, verdict.message)
        /\ Contains(verdict.message, COMMON_MISTAKES["indentation_error"].suggestion[1])
        /\ ~IsPrefix(COMMON_MISTAKES["syntax_error"].message, verdict.message)

\* the call of the current case returns None within the deadline
ReturnsNone ==
    /\ AtCase
    /\ Current.kind = "return"
    /\ IsNone(Current.value)
    /\ Current.cost < TIMEOUT_SECONDS

C27_SuccessOnlyOnReturn ==
    /\ [](pc = "judge" =>
            /\ rwt.success <=> (Current.kind = "return" /\ thread = "dead" /\ ~timed_out)
            /\ rwt.success => rwt.result = Current.value
            /\ ~rwt.success => IsNone(rwt.result))
    /\ [][pc = "alive" => pc' \in {"alive", "judge"}]_vars

\* C28: what a worker writes after the timeout that abandoned it changes
\* neither the verdict already returned nor anything of a later evaluation:
\* its cells, its sink, what run_with_timeout returns, its verdict
C28_LateWritesChangeNothing ==
    /\ [][Returned => (pc' = pc => (verdict' = verdict /\ escaped' = escaped))]_vars
    /\ [][abandoned.state = "running" /\ abandoned' # abandoned /\ pc' = pc =>
            UNCHANGED <<result, error, completed, printed_output, rwt, verdict, escaped>>]_vars
    /\ [](pc = "judge" /\ rwt.success =>
            Current.kind = "return" /\ rwt.result = Current.value)
    /\ [](pc = "judge" /\ printed_output # <<>> => Current.prints)

C28_Witness ==
    /\ abandoned.state = "ended"
    /\ abandoned.completed
    /\ Len(abandoned.printed_output) = 2
    /\ i = 1
    /\ pc = "judge"
    /\ Current.kind = "return"
    /\ IsNone(Current.value)
    /\ printed_output = <<>>
    /\ rwt.success

\* C29: while case i runs and when it is judged the sink holds what the call
\* of case i printed and nothing else, so the verdict is "printed instead of
\* returning" only if that call printed and "returns nothing" only if it did
\* not, whatever the top-level code or earlier cases printed
C29_SinkHoldsThisCaseOnly ==
    /\ pc \in {"join", "alive", "judge"} =>
          printed_output = IF wprinted THEN <<"out">> ELSE <<>>
    /\ (pc = "done" /\ started >= 1 /\ verdict.message = print_instead_of_return_message) =>
          Current.prints
    /\ (pc = "done" /\ started >= 1 /\ verdict.message = no_return_message) =>
          ~Current.prints

C29_Witness ==
    /\ pc = "done"
    /\ i = 2
    /\ CallOf(func, args.code.program, args.test_cases[1].inputs).prints
    /\ ~Current.prints
    /\ printed_output = <<>>
    /\ verdict = Verdict(FALSE, no_return_message)

\* Python's ==: numbers of any numeric type are equal when they are the same
\* number, other values when they are the same value; a comparison that
\* raises finds nothing equal
ComparesEqual(a, b) ==
    /\ a.t # "EqRaises"
    /\ IF a.t \in NumericTypes /\ b.t \in NumericTypes THEN a.n = b.n ELSE a = b

=============================================================================
